---- MODULE Spec2Model ----
\* Verification model of the Vertigo middleware (JosepSampe/vertigo):
\*   - the chunked xattr metadata codec   (common/utils.py: read_metadata, write_metadata)
\*   - the trigger registry               (common/utils.py: set_microcontroller, delete_microcontroller)
\*   - the proxy request pipeline         (handlers/proxy.py: GET, PUT, MOVE; common/utils.py: create_link)
\* The specifications of the module share its variables: Spec (codec),
\* SpecRegistry, SpecProxy, SpecRace (two concurrent writes), SpecWriteFault
\* (writes the store fails) and SpecAdds (two concurrent set_microcontroller).
EXTENDS Integers, Sequences, FiniteSets, TLC

VARIABLES
    xattrs,        \* codec: slot index -> chunk, the xattrs "<meta_key><index or ''>" of one data file
    lastWrite,     \* codec: the last write_metadata call and its outcome
    lastRead,      \* codec: the read_metadata call made since the last write, and its outcome
    slotCeiling,   \* codec: the slot ceiling the deployment writes with (write_metadata's xattr_size)
    DEFAULT_MD_STRING,  \* registry: the module-level dict of utils.py, one per server process
    swift_metadata,     \* registry: object -> the mapping stored under SWIFT_METADATA_KEY of its data file
    lastCall,           \* registry: the last set_microcontroller / delete_microcontroller call and its outcome
    calls,              \* registry: the number of calls served so far
    objects,       \* proxy: object path -> the object the storage backend holds
    memcache,      \* proxy: the contents of memcache, which the proxy only reads
    lastRequest,   \* proxy: the last request served and its outcome
    writers,       \* race: writer -> the position of its write_metadata call on the shared data file
    faultyWrite,   \* write faults: the last write_metadata call, the slots before it and its outcome
    adders         \* adds: process -> its set_microcontroller request and how far it has got

codecVars == <<xattrs, lastWrite, lastRead, slotCeiling>>

registryVars == <<DEFAULT_MD_STRING, swift_metadata, lastCall, calls>>

proxyVars == <<objects, memcache, lastRequest>>

raceVars == <<writers>>

faultVars == <<faultyWrite>>

addVars == <<adders>>

vars == <<codecVars, registryVars, proxyVars, raceVars, faultVars, addVars>>

-----------------------------------------------------------------------------
\* Bounds of the codec model.

\* largest xattr_size (slot ceiling) a deployment is run with
MaxSlotBytes == 4
\* keys and values of the metadata mappings that are pickled
MdKeys == {1}
MdValues == {1, 2}

\* A metadata mapping: a function from a subset of MdKeys to MdValues.
Mappings == UNION {[D -> MdValues] : D \in SUBSET MdKeys}

EmptyMapping == << >>

-----------------------------------------------------------------------------
\* pickle, protocol 2.  A dict is pickled as  PROTO 2  EMPTY_DICT  (key value SETITEM)*  STOP.
\* Keys and values are one byte each and differ from every opcode.

PICKLE_PROTOCOL == 2

Opcode == [PROTO |-> 128, EMPTY_DICT |-> 125, SETITEM |-> 115, STOP |-> 46]

KeyByte(k) == k
ValueByte(v) == 10 + v

RECURSIVE DumpItems(_, _)
DumpItems(m, keys) ==
    IF keys = {} THEN << >>
    ELSE LET k == CHOOSE x \in keys : \A y \in keys : x <= y
         IN  <<KeyByte(k), ValueByte(m[k]), Opcode.SETITEM>> \o DumpItems(m, keys \ {k})

\* pickle.dumps(metadata, PICKLE_PROTOCOL)
dumps(m) ==
    <<Opcode.PROTO, PICKLE_PROTOCOL, Opcode.EMPTY_DICT>> \o DumpItems(m, DOMAIN m) \o <<Opcode.STOP>>

Unpickled(m) == [ok |-> TRUE, md |-> m]
UnpicklingError == [ok |-> FALSE, md |-> EmptyMapping]

\* The unpickler's loop: it reads items until the STOP opcode and ignores every
\* byte after it; a stream that ends before STOP, or holds anything that is not an
\* item, is an error.
RECURSIVE LoadItems(_, _, _)
LoadItems(bytes, i, m) ==
    IF i > Len(bytes) THEN UnpicklingError
    ELSE IF bytes[i] = Opcode.STOP THEN Unpickled(m)
    ELSE IF /\ i + 2 <= Len(bytes)
            /\ \E k \in MdKeys : KeyByte(k) = bytes[i]
            /\ \E v \in MdValues : ValueByte(v) = bytes[i + 1]
            /\ bytes[i + 2] = Opcode.SETITEM
         THEN LET k == CHOOSE x \in MdKeys : KeyByte(x) = bytes[i]
                  v == CHOOSE x \in MdValues : ValueByte(x) = bytes[i + 1]
              IN  LoadItems(bytes, i + 3, [x \in (DOMAIN m) \cup {k} |-> IF x = k THEN v ELSE m[x]])
         ELSE UnpicklingError

\* pickle.loads(metadata)
loads(bytes) ==
    IF /\ Len(bytes) >= 3
       /\ bytes[1] = Opcode.PROTO
       /\ bytes[2] = PICKLE_PROTOCOL
       /\ bytes[3] = Opcode.EMPTY_DICT
    THEN LoadItems(bytes, 4, EmptyMapping)
    ELSE UnpicklingError

-----------------------------------------------------------------------------
\* The attribute store.  A call of getxattr / setxattr on slot faultAt fails with
\* errno faultErrno (NoFault: the store fails no call); getxattr of a slot that
\* does not exist fails with ENODATA.

NoFault == -1

ReadErrnos == {"ENOTSUP", "ENOENT", "EIO"}
WriteErrnos == {"ENOTSUP", "ENOSPC", "EDQUOT", "EIO", "EACCES"}

\* xattr.getxattr(fd, '%s%s' % (meta_key, (key or '')))
getxattr(x, key, faultAt, faultErrno) ==
    IF key = faultAt THEN [errno |-> faultErrno, value |-> << >>]
    ELSE IF key \in DOMAIN x THEN [errno |-> "none", value |-> x[key]]
    ELSE [errno |-> "ENODATA", value |-> << >>]

\* a setxattr that adds the value to what the slot holds
setxattrAppend(x, key, value) ==
    [k \in (DOMAIN x) \cup {key} |->
        IF k = key THEN (IF key \in DOMAIN x THEN x[key] ELSE << >>) \o value ELSE x[k]]

\* xattr.setxattr(fd, '%s%s' % (meta_key, key or ''), value)
setxattr(x, key, value) ==
    [k \in (DOMAIN x) \cup {key} |-> IF k = key THEN value ELSE x[k]]

Min(a, b) == IF a <= b THEN a ELSE b

\* metastr[:xattr_size - 1], a chunk one byte short of the slot ceiling
SlotChunkShort(metastr, xattr_size) == SubSeq(metastr, 1, Min(xattr_size - 1, Len(metastr)))

\* metastr[:xattr_size]
SlotChunk(metastr, xattr_size) == SubSeq(metastr, 1, Min(xattr_size, Len(metastr)))

\* metastr[xattr_size + 1:], an off-by-one slice that loses the byte after each chunk
RestOfMetastrOffByOne(metastr, xattr_size) ==
    SubSeq(metastr, Min(xattr_size + 1, Len(metastr)) + 1, Len(metastr))

\* metastr[xattr_size:]
RestOfMetastr(metastr, xattr_size) == SubSeq(metastr, Min(xattr_size, Len(metastr)) + 1, Len(metastr))

-----------------------------------------------------------------------------
\* read_metadata

ReadOutcome(kind, m) == [kind |-> kind, md |-> m]

\* the except clause of read_metadata, entered with the bytes read so far
ReadExcept(metadata, errno) ==
    IF metadata = << >> THEN ReadOutcome("False", EmptyMapping)
    ELSE IF errno \in {"ENOTSUP", "EOPNOTSUPP"}
         THEN ReadOutcome("DiskFileXattrNotSupported", EmptyMapping)
    ELSE IF errno = "ENOENT" THEN ReadOutcome("DiskFileNotExist", EmptyMapping)
    ELSE LET r == loads(metadata)
         IN  IF r.ok THEN ReadOutcome("mapping", r.md)
             ELSE ReadOutcome("UnpicklingError", EmptyMapping)

\* the while True loop of read_metadata
RECURSIVE ReadLoop(_, _, _, _, _)
ReadLoop(x, metadata, key, faultAt, faultErrno) ==
    LET r == getxattr(x, key, faultAt, faultErrno)
    IN  IF r.errno = "none"
        THEN ReadLoop(x, metadata \o r.value, key + 1, faultAt, faultErrno)
        ELSE ReadExcept(metadata, r.errno)

read_metadata(x, faultAt, faultErrno) == ReadLoop(x, << >>, 0, faultAt, faultErrno)

-----------------------------------------------------------------------------
\* write_metadata

\* an except clause that knows of the space errors only
WriteExceptSpaceOnly(errno) ==
    IF errno \in {"ENOSPC", "EDQUOT"} THEN "DiskFileNoSpace" ELSE "IOError"

\* the except clause of write_metadata: the class of the exception it raises
WriteExcept(errno) ==
    IF errno \in {"ENOTSUP", "EOPNOTSUPP"} THEN "DiskFileXattrNotSupported"
    ELSE IF errno \in {"ENOSPC", "EDQUOT"} THEN "DiskFileNoSpace"
    ELSE "IOError"

\* the errno of the exception that leaves write_metadata: DiskFileNoSpace() is
\* built without arguments, DiskFileXattrNotSupported(e) wraps the IOError and
\* a bare raise re-raises it
WriteRaisedErrno(errno) ==
    IF WriteExcept(errno) = "DiskFileNoSpace" THEN "none" ELSE errno

\* the while metastr loop of write_metadata
RECURSIVE WriteLoop(_, _, _, _, _, _)
WriteLoop(x, metastr, xattr_size, key, faultAt, faultErrno) ==
    IF metastr = << >> THEN [xattrs |-> x, outcome |-> "ok", slots |-> key, errno |-> "none"]
    ELSE IF key = faultAt
         THEN [xattrs |-> x, outcome |-> WriteExcept(faultErrno), slots |-> key,
               errno |-> WriteRaisedErrno(faultErrno)]
    ELSE WriteLoop(setxattr(x, key, SlotChunk(metastr, xattr_size)),
                   RestOfMetastr(metastr, xattr_size), xattr_size, key + 1,
                   faultAt, faultErrno)

\* a write that puts the slots back as they were when it fails
write_metadata_rolled_back(x, metadata, xattr_size, faultAt, faultErrno) ==
    LET w == WriteLoop(x, dumps(metadata), xattr_size, 0, faultAt, faultErrno)
    IN  IF w.outcome = "ok" THEN w ELSE [w EXCEPT !.xattrs = x]

write_metadata(x, metadata, xattr_size, faultAt, faultErrno) ==
    WriteLoop(x, dumps(metadata), xattr_size, 0, faultAt, faultErrno)

-----------------------------------------------------------------------------
\* The trigger registry.

\* Python's None and list values of a trigger
None == [isNone |-> TRUE, items |-> << >>]
PyList(items) == [isNone |-> FALSE, items |-> items]

\* `not v` for a trigger's value: None and the empty list are false
Falsy(v) == v.isNone \/ v.items = << >>

\* `mc in v` for a list v
InList(mc, v) == \E i \in 1..Len(v.items) : v.items[i] = mc

\* v.append(mc)
PyAppend(v, mc) == PyList(Append(v.items, mc))

\* v.remove(mc): removes the first occurrence
PyRemove(v, mc) ==
    LET i == CHOOSE j \in 1..Len(v.items) :
                 v.items[j] = mc /\ \A k \in 1..(j - 1) : v.items[k] # mc
    IN  PyList(SubSeq(v.items, 1, i - 1) \o SubSeq(v.items, i + 1, Len(v.items)))

\* the keys of DEFAULT_MD_STRING
AllTriggers == {"onget", "onput", "ondelete", "ontimer"}

\* the value DEFAULT_MD_STRING is given when utils.py is imported
DefaultMdString == [t \in AllTriggers |-> None]

SYSMETA_HEADER == "X-Object-Sysmeta-Vertigo-"

\* metadata keys are kept as the tuple of the parts the code concatenates
VERTIGO_MC_HEADER == <<SYSMETA_HEADER, "Microcontroller">>

\* sysmeta_key = SYSMETA_HEADER+trigger+'-'+mc
SysmetaKey(trigger, mc) == <<SYSMETA_HEADER, trigger, mc>>

\* key.startswith(SYSMETA_HEADER)
StartsWithSysmeta(key) == key[1] = SYSMETA_HEADER

\* metadata[key] = value
SetItem(metadata, key, value) ==
    [k \in (DOMAIN metadata) \cup {key} |-> IF k = key THEN value ELSE metadata[k]]

\* del metadata[key], for a key that may be absent
DelItem(metadata, key) == [k \in (DOMAIN metadata) \ {key} |-> metadata[k]]

\* the number of registry calls a run of the model serves
MaxCalls == 3

\* the request parameters of the model
Objects == {"o1", "o2"}
NoDataFile == "o0"
RequestTriggers == {"onget", "onput"}
Handlers == {"h1", "h2"}
Bodies == {"", "cfg", "cfg\n", "\n"}

\* vertigo.request.body.rstrip(), for the bodies of the model
rstrip(body) == IF body = "cfg\n" THEN "cfg" ELSE IF body = "\n" THEN "" ELSE body

\* the metadata Swift stores with every object
PlainMetadata == [k \in {<<"Content-Type">>} |-> "text/plain"]

\* get_microcontroller_dict, given the metadata get_swift_metadata returned
get_microcontroller_dict(metadata) ==
    IF VERTIGO_MC_HEADER \in DOMAIN metadata
    THEN [isNone |-> FALSE, dict |-> metadata[VERTIGO_MC_HEADER]]
    ELSE [isNone |-> TRUE, dict |-> DefaultMdString]

\* mc_dict[trigger].append(mc), unconditionally
AppendAlways(mc_dict, trigger, mc) ==
    [mc_dict EXCEPT ![trigger] = PyAppend(IF Falsy(@) THEN PyList(<< >>) ELSE @, mc)]

\* set_microcontroller, 1st step after the dict is chosen:
\*   if not mc_dict[trigger]: mc_dict[trigger] = list()
\*   if not mc in mc_dict[trigger]: mc_dict[trigger].append(mc)
AppendIfAbsent(mc_dict, trigger, mc) ==
    LET d1 == IF Falsy(mc_dict[trigger])
              THEN [mc_dict EXCEPT ![trigger] = PyList(<< >>)]
              ELSE mc_dict
    IN  IF ~InList(mc, d1[trigger])
        THEN [d1 EXCEPT ![trigger] = PyAppend(@, mc)]
        ELSE d1

\* the 3rd step with the configuration entry left in place for an empty body
AssignMetadataKeepsConfig(metadata, mc_dict, trigger, mc, specific_md) ==
    LET m1 == SetItem(metadata, VERTIGO_MC_HEADER, mc_dict)
    IN  IF specific_md # ""
        THEN SetItem(m1, SysmetaKey(trigger, mc), specific_md)
        ELSE m1

\* set_microcontroller, 3rd step: the metadata handed to set_swift_metadata
AssignMetadata(metadata, mc_dict, trigger, mc, specific_md) ==
    LET m1 == SetItem(metadata, VERTIGO_MC_HEADER, mc_dict)
    IN  IF specific_md # ""
        THEN SetItem(m1, SysmetaKey(trigger, mc), specific_md)
        ELSE DelItem(m1, SysmetaKey(trigger, mc))

\* set_microcontroller(vertigo, trigger, mc) on the object's stored metadata, with
\* the process's DEFAULT_MD_STRING; storeFault: set_swift_metadata raises.
\* The dict taken when the object has none is DEFAULT_MD_STRING itself, not a
\* copy of it, so the 1st step's changes are made to the module-level dict.
set_microcontroller(default, metadata, trigger, mc, specific_md, storeFault) ==
    LET got == get_microcontroller_dict(metadata)
        mc_dict == AppendIfAbsent(IF got.isNone THEN default ELSE got.dict, trigger, mc)
    IN  [default  |-> IF got.isNone THEN mc_dict ELSE default,
         metadata |-> IF storeFault THEN metadata
                      ELSE AssignMetadata(metadata, mc_dict, trigger, mc, specific_md),
         outcome  |-> IF storeFault THEN <<"ValueError", "error setting trigger dictionary">>
                      ELSE <<"ok">>]

\* clean_microcontroller_dict without the deletion of an all-None dictionary
CleanKeepsEmptyDict(metadata) ==
    SetItem(metadata, VERTIGO_MC_HEADER,
            [t \in AllTriggers |-> IF Falsy(metadata[VERTIGO_MC_HEADER][t]) THEN None
                                   ELSE metadata[VERTIGO_MC_HEADER][t]])

\* clean_microcontroller_dict(metadata)
clean_microcontroller_dict(metadata) ==
    LET d == [t \in AllTriggers |-> IF Falsy(metadata[VERTIGO_MC_HEADER][t]) THEN None
                                    ELSE metadata[VERTIGO_MC_HEADER][t]]
    IN  IF \A t \in AllTriggers : d[t] = None
        THEN DelItem(metadata, VERTIGO_MC_HEADER)
        ELSE SetItem(metadata, VERTIGO_MC_HEADER, d)

\* the ValueError delete_microcontroller raises from its second except clause
NotAssigned(trigger, mc) == <<"ValueError", "not assigned", mc, trigger>>

\* the branch with only the trigger dictionary deleted
DeleteNamespaceOnlyDict(metadata) == DelItem(metadata, VERTIGO_MC_HEADER)

\* delete_microcontroller, branch trigger == "vertigo" and mc == "all"
DeleteNamespace(metadata) ==
    [k \in {key \in DOMAIN metadata : ~StartsWithSysmeta(key)} |-> metadata[k]]

RECURSIVE DelSysmetaKeys(_, _, _, _)
DelSysmetaKeys(metadata, trigger, mc_list, i) ==
    IF i > Len(mc_list) THEN metadata
    ELSE DelSysmetaKeys(DelItem(metadata, SysmetaKey(trigger, mc_list[i])), trigger, mc_list, i + 1)

\* delete_microcontroller, branch mc == 'all', for a trigger whose value is a list
DeleteAllOfTrigger(metadata, trigger) ==
    LET mc_list == metadata[VERTIGO_MC_HEADER][trigger].items
        m1 == SetItem(metadata, VERTIGO_MC_HEADER,
                      [metadata[VERTIGO_MC_HEADER] EXCEPT ![trigger] = None])
    IN  DelSysmetaKeys(m1, trigger, mc_list, 1)

\* delete_microcontroller, branch mc in metadata[VERTIGO_MC_HEADER][trigger], with the list left as it is
DeleteOneKeepsName(metadata, trigger, mc) ==
    DelItem(metadata, SysmetaKey(trigger, mc))

\* delete_microcontroller, branch mc in metadata[VERTIGO_MC_HEADER][trigger]
DeleteOne(metadata, trigger, mc) ==
    DelItem(SetItem(metadata, VERTIGO_MC_HEADER,
                    [metadata[VERTIGO_MC_HEADER] EXCEPT ![trigger] = PyRemove(@, mc)]),
            SysmetaKey(trigger, mc))

\* delete_microcontroller(vertigo, trigger, mc) on the object's stored metadata;
\* storeFault: set_swift_metadata raises.  Every exception of the second try
\* block (KeyError for a missing dictionary or trigger, TypeError for a None
\* list, the bare raise, a failed write) becomes the same ValueError.
delete_microcontroller(metadata, trigger, mc, storeFault) ==
    LET failed == [metadata |-> metadata, outcome |-> NotAssigned(trigger, mc)]
        written(m) == IF storeFault THEN failed ELSE [metadata |-> m, outcome |-> <<"ok">>]
    IN  IF trigger = "vertigo" /\ mc = "all" THEN written(DeleteNamespace(metadata))
        ELSE IF VERTIGO_MC_HEADER \notin DOMAIN metadata THEN failed
        ELSE IF mc = "all"
             THEN IF trigger \notin AllTriggers THEN failed
                  ELSE IF metadata[VERTIGO_MC_HEADER][trigger].isNone THEN failed
                  ELSE written(clean_microcontroller_dict(DeleteAllOfTrigger(metadata, trigger)))
        ELSE IF trigger \notin AllTriggers THEN failed
        ELSE IF metadata[VERTIGO_MC_HEADER][trigger].isNone THEN failed
        ELSE IF InList(mc, metadata[VERTIGO_MC_HEADER][trigger])
             THEN written(clean_microcontroller_dict(DeleteOne(metadata, trigger, mc)))
        ELSE failed

-----------------------------------------------------------------------------
\* The proxy request pipeline (handlers/proxy.py) and create_link.

\* object paths "container/object" of the account; "c/f/x" lies in the pseudo-folder "f/"
Paths == {"c/a", "c/f/x"}

NoLink == "no link"
BodyValues == {"b1", "b2"}

\* the Content-Type create_link gives a link object
LinkContentTypeWritten == "Vertigo-Link"
\* the Content-Type GET and the trigger requests treat as a link
LinkContentTypeRead == "vertigo/link"

Absent == [exists |-> FALSE, ctype |-> "", linkto |-> NoLink, body |-> ""]
Stored(ctype, linkto, body) == [exists |-> TRUE, ctype |-> ctype, linkto |-> linkto, body |-> body]

\* a response: status, the Content-Type and X-Object-Sysmeta-Vertigo-Link-to
\* headers, the body, and the Python class of the value
Response(status, ctype, linkto, body) ==
    [class |-> "Response", status |-> status, ctype |-> ctype, linkto |-> linkto, body |-> body]

NoResponse == [class |-> "none", status |-> 0, ctype |-> "", linkto |-> NoLink, body |-> ""]

\* resp.is_success
IsSuccess(resp) == resp.status \in 200..299

\* the microcontroller object a trigger assignation names, in self.mc_container
HandlerPath == "microcontroller/h1"

\* the storage backend behind self.app: GET and HEAD of an object
BackendGET(objs, path) ==
    IF path \in Paths /\ objs[path].exists
    THEN Response(200, objs[path].ctype, objs[path].linkto, objs[path].body)
    ELSE Response(404, "text/html", NoLink, "")

BackendHEAD(objs, path) ==
    IF path \in Paths /\ objs[path].exists
    THEN Response(200, objs[path].ctype, objs[path].linkto, "")
    ELSE IF path = HandlerPath THEN Response(200, "application/octet-stream", NoLink, "")
    ELSE Response(404, "text/html", NoLink, "")

\* the storage backend: COPY of an object to the path in the Destination header
BackendCOPY(objs, path, destination) ==
    IF path \in Paths /\ objs[path].exists /\ destination \in Paths
    THEN [objects |-> [objs EXCEPT ![destination] = objs[path]],
          resp |-> Response(201, "text/html", NoLink, "")]
    ELSE [objects |-> objs, resp |-> Response(404, "text/html", NoLink, "")]

\* the storage backend: PUT of an object with the request's headers and body
BackendPUT(objs, path, ctype, linkto, body) ==
    [objs EXCEPT ![path] = Stored(ctype, linkto, body)]

\* a sub-request or forwarded request, as it reaches self.app
SubRequest(method, path) == <<method, path>>

\* _is_object_in_cache(obj): self.memcache.get(obj) is not None
IsObjectInCache(cache, obj) == obj \in Paths /\ cache.objects[obj].exists

\* _get_cached_object(obj): the response built from the cached headers and body
GetCachedObject(cache, obj) ==
    Response(200, cache.objects[obj].ctype, cache.objects[obj].linkto, cache.objects[obj].body)

\* request headers that may be missing
NoHeader == "no header"
UserAgents == {NoHeader, "python-swiftclient", "vertigo/microcontroller"}

\* capability tokens "<prefix>-<secret>", kept as <<prefix, secret>>
NoToken == << >>
Tokens == {<<"t1", "s1">>, <<"t1", "s2">>}

\* self.memcache.get('VERTIGO_TOKEN_' + prefix + "_" + obj): None when there is no entry
MemcacheToken(cache, prefix, obj) ==
    IF <<prefix, obj>> \in DOMAIN cache.tokens THEN cache.tokens[<<prefix, obj>>] ELSE NoToken

\* a check that accepts the registered token of any object
CheckAnyObjectToken(cache, obj, userAgent, token) ==
    IF userAgent = NoHeader THEN [exc |-> "KeyError", mcEnabled |-> TRUE]
    ELSE IF userAgent # "vertigo/microcontroller" THEN [exc |-> "none", mcEnabled |-> TRUE]
    ELSE IF token = NoToken THEN [exc |-> "KeyError", mcEnabled |-> TRUE]
    ELSE [exc |-> "none",
          mcEnabled |-> ~(\E k \in DOMAIN cache.tokens : cache.tokens[k] = token)]

\* _check_microcntroller_execution(obj): the value left in headers['mc-enabled'],
\* or the KeyError of a header that is not there
CheckMicrocontrollerExecution(cache, obj, userAgent, token) ==
    IF userAgent = NoHeader THEN [exc |-> "KeyError", mcEnabled |-> TRUE]
    ELSE IF userAgent # "vertigo/microcontroller" THEN [exc |-> "none", mcEnabled |-> TRUE]
    ELSE IF token = NoToken THEN [exc |-> "KeyError", mcEnabled |-> TRUE]
    ELSE [exc |-> "none",
          mcEnabled |-> ~(token = MemcacheToken(cache, token[1], obj))]

Outcome(exc, mcEnabled, subreqs, resp, objs) ==
    [exc |-> exc, mcEnabled |-> mcEnabled, subreqs |-> subreqs, resp |-> resp, objects |-> objs]

\* a link resolution that follows the destination once more when it is a link too
ResolveLinkTwice(objs, cache, first, subreqs, mcEnabled) ==
    IF first.ctype = LinkContentTypeRead /\ first.linkto # NoLink
    THEN LET second == BackendGET(objs, first.linkto)
             s2 == Append(subreqs, SubRequest("GET", first.linkto))
         IN  IF second.ctype = LinkContentTypeRead /\ second.linkto # NoLink
             THEN Outcome("none", mcEnabled,
                          Append(s2, SubRequest("GET", second.linkto)),
                          BackendGET(objs, second.linkto), objs)
             ELSE Outcome("none", mcEnabled, s2, second, objs)
    ELSE Outcome("none", mcEnabled, subreqs, first, objs)

\* GET, lines 219-225: the response for obj is replaced by the one of the
\* link's destination when its Content-Type is 'vertigo/link'
ResolveLink(objs, cache, first, subreqs, mcEnabled) ==
    IF first.ctype = LinkContentTypeRead
    THEN IF first.linkto = NoLink
         THEN Outcome("KeyError", mcEnabled, subreqs, NoResponse, objs)
         ELSE IF IsObjectInCache(cache, first.linkto)
              THEN Outcome("none", mcEnabled, subreqs, GetCachedObject(cache, first.linkto), objs)
              ELSE Outcome("none", mcEnabled,
                           Append(subreqs, SubRequest("GET", first.linkto)),
                           BackendGET(objs, first.linkto), objs)
    ELSE Outcome("none", mcEnabled, subreqs, first, objs)

\* a GET that asks the backend without looking into memcache
GETIgnoresCache(objs, cache, obj, userAgent, token) ==
    LET chk == CheckMicrocontrollerExecution(cache, obj, userAgent, token)
        first == BackendGET(objs, obj)
        s1 == <<SubRequest("GET", obj)>>
    IN  IF chk.exc # "none" THEN Outcome(chk.exc, chk.mcEnabled, << >>, NoResponse, objs)
        ELSE IF first.ctype = LinkContentTypeRead /\ first.linkto # NoLink
             THEN Outcome("none", chk.mcEnabled,
                          Append(s1, SubRequest("GET", first.linkto)),
                          BackendGET(objs, first.linkto), objs)
             ELSE Outcome("none", chk.mcEnabled, s1, first, objs)

\* VertigoProxyHandler.GET.  The objects of the model carry no Storlet-List
\* header, so the storlet branch is not taken; the Content-Length clean-up does
\* not change the status, the headers modelled or the body.
GET(objs, cache, obj, userAgent, token) ==
    LET chk == CheckMicrocontrollerExecution(cache, obj, userAgent, token)
    IN  IF chk.exc # "none" THEN Outcome(chk.exc, chk.mcEnabled, << >>, NoResponse, objs)
        ELSE IF IsObjectInCache(cache, obj)
             THEN ResolveLink(objs, cache, GetCachedObject(cache, obj), << >>, chk.mcEnabled)
             ELSE ResolveLink(objs, cache, BackendGET(objs, obj),
                              <<SubRequest("GET", obj)>>, chk.mcEnabled)

\* create_link(vertigo, link_path, dest_path): the PUT sub-request and its response
create_link(objs, link_path, dest_path) ==
    Outcome("none", TRUE, <<SubRequest("PUT", link_path)>>,
            Response(201, "text/html", NoLink, ""),
            BackendPUT(objs, link_path, LinkContentTypeWritten, dest_path, ""))

\* utils.verify_access(vertigo, path): False, or the headers of the HEAD response
verify_access(objs, path) ==
    LET resp == BackendHEAD(objs, path)
    IN  IF ~IsSuccess(resp)
        THEN [class |-> "bool", status |-> 0, ctype |-> "", linkto |-> NoLink, body |-> ""]
        ELSE [class |-> "HeaderKeyDict", status |-> 0, ctype |-> resp.ctype,
              linkto |-> resp.linkto, body |-> ""]

\* VertigoProxyHandler._verify_access(cont, obj): it reads response.is_success,
\* response.status_int and, in its callers, response.headers, which only a
\* Response has; verify_access returns a bool or the headers.
VerifyAccess(objs, path) ==
    LET response == verify_access(objs, path)
    IN  IF response.class # "Response" THEN [exc |-> "AttributeError", response |-> response]
        ELSE IF ~IsSuccess(response)
             THEN [exc |-> IF response.status = 401 THEN "HTTPUnauthorized" ELSE "HTTPNotFound",
                   response |-> response]
        ELSE [exc |-> "none", response |-> response]

\* the messages of PUT and of MOVE when link path and destination path are the same
PutSamePathMsg == "Vertigo - Error: Link path and destination path cannot be the same.\n"
MoveSamePathMsg == "Vertigo - Error: Link path and destination pathare the same.\n"

\* the Response built when link path and destination path are the same:
\* Response(body=msg, headers={'etag': ''}, request=self.request), whose status
\* is swob's default, 200
SamePathResponse(msg) == Response(200, "text/html", NoLink, msg)

\* the branch link_path != dest_path of PUT (object move) and of MOVE;
\* linkArgs is the number of arguments create_link is called with
MoveToLink(objs, link_path, dest_path, linkArgs) ==
    LET va == VerifyAccess(objs, link_path)
        head == <<SubRequest("HEAD", link_path)>>
    IN  IF va.exc # "none" THEN Outcome(va.exc, TRUE, head, NoResponse, objs)
        ELSE LET copy == va.response.linkto = NoLink /\ va.response.ctype # LinkContentTypeRead
                 copied == IF copy THEN BackendCOPY(objs, link_path, dest_path)
                           ELSE [objects |-> objs, resp |-> va.response]
                 subreqs == IF copy THEN Append(head, SubRequest("COPY", link_path)) ELSE head
             IN  IF ~IsSuccess(copied.resp)
                 THEN Outcome("none", TRUE, subreqs, copied.resp, copied.objects)
                 ELSE IF linkArgs # 3
                      THEN Outcome("TypeError", TRUE, subreqs, NoResponse, copied.objects)
                 ELSE LET link == create_link(copied.objects, link_path, dest_path)
                      IN  Outcome("none", TRUE, subreqs \o link.subreqs, link.resp, link.objects)

\* VertigoProxyHandler.MOVE, with dest_path = headers['Destination']
MOVE(objs, obj, dest_path) ==
    IF obj # dest_path THEN MoveToLink(objs, obj, dest_path, 3)
    ELSE Outcome("none", TRUE, << >>, SamePathResponse(MoveSamePathMsg), objs)

\* the object names a request may carry in container "c": the two objects, the
\* bare wildcard and the pseudo-folder wildcard
ObjectNames == {"a", "f/x"}
Wildcards == {"*", "f/*"}

\* os.path.join(..., self.container, obj) for the names of the model; the
\* empty name gives the path of the container followed by '/'
PathOf(name) ==
    IF name = "a" THEN "c/a" ELSE IF name = "f/x" THEN "c/f/x"
    ELSE IF name = "none" THEN "c/none" ELSE "c/"

\* the container listing, one name per line in the order of the names,
\* restricted to a prefix
Listing(objs, prefix) ==
    (IF objs["c/a"].exists /\ prefix = "" THEN <<"a">> ELSE << >>)
    \o (IF objs["c/f/x"].exists /\ prefix \in {"", "f/"} THEN <<"f/x">> ELSE << >>)

\* _get_object_list(path): for '*' the list starts with the empty name
get_object_list(objs, path) ==
    IF path = "*" THEN <<"">> \o Listing(objs, "") ELSE Listing(objs, "f/")

\* the sub-request _get_object_list sends to the container
ListingRequest(path) ==
    IF path = "*" THEN SubRequest("GET", "c") ELSE SubRequest("GET", "c?prefix=f/")

\* len(link.split('/', 2)) for the paths of the model
SplitParts(link) == IF link = "c/a" THEN 2 ELSE 3

\* the answer of self.app to the forwarded trigger request
BackendTrigger(objs, path) ==
    IF path \in Paths /\ objs[path].exists THEN Response(201, "text/html", NoLink, "")
    ELSE Response(404, "text/html", NoLink, "")

\* a loop that catches the failure of an object and goes on with the next one
RECURSIVE ProcessObjectsSkipFailed(_, _, _, _, _)
ProcessObjectsSkipFailed(objs, obj_list, i, subreqs, response) ==
    IF i > Len(obj_list)
    THEN IF response.class = "none"
         THEN Outcome("UnboundLocalError", TRUE, subreqs, NoResponse, objs)
         ELSE Outcome("none", TRUE, subreqs, response, objs)
    ELSE LET path == PathOf(obj_list[i])
             va == VerifyAccess(objs, path)
             s1 == Append(subreqs, SubRequest("HEAD", path))
         IN  IF va.exc # "none"
             THEN ProcessObjectsSkipFailed(objs, obj_list, i + 1, s1, response)
             ELSE ProcessObjectsSkipFailed(objs, obj_list, i + 1,
                                           Append(s1, SubRequest("PUT", path)),
                                           BackendTrigger(objs, path))

\* the loop of _process_trigger_assignation_deletion_request over obj_list
\* from position i on, and the final "return response"
RECURSIVE ProcessObjects(_, _, _, _, _)
ProcessObjects(objs, obj_list, i, subreqs, response) ==
    IF i > Len(obj_list)
    THEN IF response.class = "none"
         THEN Outcome("UnboundLocalError", TRUE, subreqs, NoResponse, objs)
         ELSE Outcome("none", TRUE, subreqs, response, objs)
    ELSE LET path == PathOf(obj_list[i])
             va == VerifyAccess(objs, path)
             s1 == Append(subreqs, SubRequest("HEAD", path))
         IN  IF va.exc # "none" THEN Outcome(va.exc, TRUE, s1, NoResponse, objs)
             ELSE IF va.response.ctype # LinkContentTypeRead
                  THEN ProcessObjects(objs, obj_list, i + 1,
                                      Append(s1, SubRequest("PUT", path)),
                                      BackendTrigger(objs, path))
             ELSE IF va.response.linkto = NoLink
                  THEN Outcome("KeyError", TRUE, s1, NoResponse, objs)
             ELSE IF SplitParts(va.response.linkto) # 2
                  THEN Outcome("ValueError", TRUE, s1, NoResponse, objs)
             ELSE LET link == va.response.linkto
                      va2 == VerifyAccess(objs, link)
                      s2 == Append(s1, SubRequest("HEAD", link))
                  IN  IF va2.exc # "none" THEN Outcome(va2.exc, TRUE, s2, NoResponse, objs)
                      ELSE ProcessObjects(objs, obj_list, i + 1,
                                          Append(s2, SubRequest("PUT", link)),
                                          BackendTrigger(objs, link))

\* _process_trigger_assignation_deletion_request for the object name of the request
process_trigger_assignation_deletion_request(objs, assignation, name) ==
    LET va == VerifyAccess(objs, HandlerPath)
        s0 == IF assignation THEN <<SubRequest("HEAD", HandlerPath)>> ELSE << >>
    IN  IF assignation /\ va.exc # "none" THEN Outcome(va.exc, TRUE, s0, NoResponse, objs)
        ELSE IF name \in Wildcards
             THEN ProcessObjects(objs, get_object_list(objs, name), 1,
                                 Append(s0, ListingRequest(name)), NoResponse)
             ELSE ProcessObjects(objs, <<name>>, 1, s0, NoResponse)

\* the kinds of PUT request the base handler tells apart
PutKinds == {"assignation", "deletion", "grouping", "move", "plain"}

\* VertigoProxyHandler.PUT for the object name of the request; link_to is the
\* X-Vertigo-Link-To header of a move, put the object a plain PUT stores
PUT(objs, kind, name, link_to, put) ==
    IF kind \in {"assignation", "deletion"}
    THEN process_trigger_assignation_deletion_request(objs, kind = "assignation", name)
    ELSE IF kind = "grouping"
         THEN Outcome("UnboundLocalError", TRUE, << >>, NoResponse, objs)
    ELSE IF kind = "move"
         THEN IF PathOf(name) # link_to THEN MoveToLink(objs, PathOf(name), link_to, 4)
              ELSE Outcome("none", TRUE, << >>, SamePathResponse(PutSamePathMsg), objs)
    ELSE Outcome("none", TRUE, <<SubRequest("PUT", PathOf(name))>>,
                 Response(201, "text/html", NoLink, ""),
                 BackendPUT(objs, PathOf(name), put.ctype, put.linkto, put.body))

\* the methods of VertigoProxyHandler marked @public, and other attributes a
\* request method may name
PublicHandlers == {"GET", "PUT", "POST", "HEAD", "MOVE"}
PrivateAttributes == {"handle_request", "memcache"}

\* request methods: the public handlers, two verbs the handler has no
\* attribute for, and the private attributes
Verbs == PublicHandlers \cup {"DELETE", "OPTIONS"} \cup PrivateAttributes

\* handle_request with "return HTTPMethodNotAllowed" in the else branch
handle_request_else_405(method, is_valid_request) ==
    IF (method \in PublicHandlers \cup PrivateAttributes) /\ is_valid_request
    THEN IF method \in PublicHandlers THEN "handler" ELSE "HTTPMethodNotAllowed"
    ELSE "HTTPMethodNotAllowed"

\* handle_request: what becomes of a request, "handler" standing for handler()
handle_request(method, is_valid_request) ==
    IF (method \in PublicHandlers \cup PrivateAttributes) /\ is_valid_request
    THEN IF method \in PublicHandlers THEN "handler" ELSE "HTTPMethodNotAllowed"
    ELSE "get_response"

\* self.app serving a request that is passed through unchanged
BackendForward(objs, method, path, put) ==
    IF method = "GET" THEN [objects |-> objs, resp |-> BackendGET(objs, path)]
    ELSE IF method = "HEAD" THEN [objects |-> objs, resp |-> BackendHEAD(objs, path)]
    ELSE IF method = "PUT"
         THEN [objects |-> BackendPUT(objs, path, put.ctype, put.linkto, put.body),
               resp |-> Response(201, "text/html", NoLink, "")]
    ELSE IF method = "DELETE"
         THEN IF objs[path].exists
              THEN [objects |-> [objs EXCEPT ![path] = Absent],
                    resp |-> Response(204, "text/html", NoLink, "")]
              ELSE [objects |-> objs, resp |-> Response(404, "text/html", NoLink, "")]
    ELSE IF method = "POST"
         THEN [objects |-> objs,
               resp |-> Response(IF objs[path].exists THEN 202 ELSE 404, "text/html", NoLink, "")]
    ELSE IF method = "OPTIONS"
         THEN [objects |-> objs, resp |-> Response(200, "text/html", NoLink, "")]
    ELSE [objects |-> objs, resp |-> Response(405, "text/html", NoLink, "")]

\* a request that handle_request answers without calling a handler
NotHandled(objs, method, is_valid_request, path, put) ==
    IF handle_request(method, is_valid_request) = "HTTPMethodNotAllowed"
    THEN Outcome("none", TRUE, << >>, Response(405, "text/html", NoLink, ""), objs)
    ELSE LET served == BackendForward(objs, method, path, put)
         IN  Outcome("none", TRUE, <<SubRequest(method, path)>>, served.resp, served.objects)

\* str(value) of a dictionary, as a header carries it, and eval of that string
PyStr(value) == <<"str", value>>
PyEval(string) == string[2]

\* the headers of the backend's HEAD response for an object with this metadata:
\* the trigger dictionary is carried as its string
BackendHeaders(metadata) ==
    [k \in DOMAIN metadata |->
        IF k = VERTIGO_MC_HEADER THEN PyStr(metadata[k]) ELSE metadata[k]]

\* key.replace('X-Object-Sysmeta-', '') for a key that starts with
\* 'X-Object-Sysmeta-Vertigo-'
PublicKey(key) == <<"Vertigo-">> \o Tail(key)

\* HEAD, lines 293-296: every header of the reserved namespace is copied under
\* its public name
ExposeSysmeta(headers) ==
    LET reserved == {k \in DOMAIN headers : StartsWithSysmeta(k)}
    IN  [k \in (DOMAIN headers) \cup {PublicKey(r) : r \in reserved} |->
            IF \E r \in reserved : PublicKey(r) = k
            THEN headers[CHOOSE r \in reserved : PublicKey(r) = k]
            ELSE headers[k]]

\* HEAD, lines 300-302: the triggers whose value is None or empty are deleted
DropEmptyTriggers(mc_dict) ==
    [t \in {x \in DOMAIN mc_dict : ~Falsy(mc_dict[x])} |-> mc_dict[t]]

\* HEAD with the trigger dictionary exposed as the backend sent it
HEADKeepsEmptyTriggers(headers) == ExposeSysmeta(headers)

\* VertigoProxyHandler.HEAD, given the headers of the backend's response
HEAD(headers) ==
    LET exposed == ExposeSysmeta(headers)
        mc_key == PublicKey(VERTIGO_MC_HEADER)
    IN  IF mc_key \in DOMAIN exposed
        THEN SetItem(exposed, mc_key, PyStr(DropEmptyTriggers(PyEval(exposed[mc_key]))))
        ELSE exposed

\* the objects a plain PUT of a client stores in the model
PlainPuts ==
    {Stored("text/plain", NoLink, b) : b \in BodyValues}
    \cup {Stored(LinkContentTypeRead, p, "") : p \in Paths}

\* what memcache may hold for an object: nothing, a cached copy of a plain
\* object, or a cached copy of a link
CachedValues ==
    {Absent, Stored("text/plain", NoLink, "b0"), Stored(LinkContentTypeRead, "c/f/x", "")}

\* the memcache contents of a deployment: what it holds per object, and the
\* token registered for the microcontroller prefix "t1" on "c/a"
Memcaches ==
    {[objects |-> o, tokens |-> [k \in {<<"t1", "c/a">>} |-> <<"t1", "s1">>]] :
        o \in [Paths -> CachedValues]}

NoRequest == [method |-> "none", name |-> "", path |-> "", dest |-> "", kind |-> "",
              valid |-> TRUE, userAgent |-> NoHeader, token |-> NoToken,
              exc |-> "none", mcEnabled |-> TRUE, subreqs |-> << >>, resp |-> NoResponse]

\* a served request: the object name it carries, the path of that name, the
\* destination header of a move, the User-Agent and X-Vertigo-Token headers
\* (of a GET), and what the handler did
Served(method, name, path, dest, kind, out) ==
    [method |-> method, name |-> name, path |-> path, dest |-> dest, kind |-> kind,
     valid |-> TRUE, userAgent |-> NoHeader, token |-> NoToken,
     exc |-> out.exc, mcEnabled |-> out.mcEnabled, subreqs |-> out.subreqs, resp |-> out.resp]

\* the two processes that write the metadata of one data file at the same time
Writers == {"w1", "w2"}

\* a writer inside write_metadata: the mapping it writes, the rest of metastr
\* and the index of the next slot
WriterAt(m, metastr, key) == [md |-> m, metastr |-> metastr, key |-> key]

\* the writers while another specification runs
RaceIdle == writers = [w \in Writers |-> WriterAt(EmptyMapping, << >>, 0)]

\* a write_metadata call: the mapping, the slots before the call, the slot the
\* store failed on and with which errno, and the exception that left the call
FaultyWrite(m, before, faultAt, faultErrno, w) ==
    [op |-> "write", md |-> m, before |-> before, faultAt |-> faultAt,
     faultErrno |-> faultErrno, outcome |-> w.outcome, slots |-> w.slots, errno |-> w.errno]

NoFaultyWrite ==
    [op |-> "none", md |-> EmptyMapping, before |-> << >>, faultAt |-> NoFault,
     faultErrno |-> "none", outcome |-> "none", slots |-> 0, errno |-> "none"]

\* the write history while another specification runs
FaultIdle == faultyWrite = NoFaultyWrite

\* the two server processes that serve a set_microcontroller request for the
\* same object at the same time
Adders == {"p1", "p2"}

\* a process inside set_microcontroller: pc is where it is, mc_dict the dict
\* of its 1st step and metadata the mapping of its 3rd step
AdderAt(pc, trigger, mc, body, mc_dict, metadata) ==
    [pc |-> pc, trigger |-> trigger, mc |-> mc, body |-> body,
     mc_dict |-> mc_dict, metadata |-> metadata]

\* the processes while another specification runs
AddIdle == adders = [a \in Adders |-> AdderAt("idle", "", "", "", DefaultMdString, << >>)]

\* the values of the proxy variables while another specification runs
ProxyIdle ==
    /\ objects = [p \in Paths |-> Stored("text/plain", NoLink, "b1")]
    /\ memcache = [objects |-> [p \in Paths |-> Absent],
                   tokens |-> [k \in {<<"t1", "c/a">>} |-> <<"t1", "s1">>]]
    /\ lastRequest = NoRequest

-----------------------------------------------------------------------------
\* The values of the registry variables before any call.

NoCall == [op |-> "none", obj |-> NoDataFile, trigger |-> "", mc |-> "", body |-> "",
           storeFault |-> FALSE, hadDict |-> FALSE, hadBinding |-> FALSE,
           outcome |-> <<"none">>]

RegistryIdle ==
    /\ DEFAULT_MD_STRING = DefaultMdString
    /\ swift_metadata = [o \in Objects |-> PlainMetadata]
    /\ lastCall = NoCall
    /\ calls = 0

-----------------------------------------------------------------------------
\* The codec specification: calls of write_metadata and read_metadata on one
\* data file and one attribute key.

NoWrite == [op |-> "none", md |-> EmptyMapping, fresh |-> FALSE,
            outcome |-> "none", slots |-> 0]
NoRead == [op |-> "none", faultAt |-> NoFault, faultErrno |-> "none",
           outcome |-> ReadOutcome("none", EmptyMapping)]

\* the slots a faulty store may fail on: every slot the largest serialization
\* touches under the smallest slot ceiling
FaultSlots == 0..(Len(dumps([k \in MdKeys |-> 1])) - 1)

\* the codec variables while another specification runs
CodecIdle ==
    /\ slotCeiling = 1
    /\ xattrs = << >>
    /\ lastWrite = NoWrite
    /\ lastRead = NoRead

CodecInit ==
    /\ slotCeiling \in 1..MaxSlotBytes
    /\ xattrs = << >>
    /\ lastWrite = NoWrite
    /\ lastRead = NoRead
    /\ RegistryIdle
    /\ ProxyIdle
    /\ RaceIdle
    /\ FaultIdle
    /\ AddIdle

WriteMetadata ==
    \E m \in Mappings :
        LET w == write_metadata(xattrs, m, slotCeiling, NoFault, "none")
        IN  /\ xattrs' = w.xattrs
            /\ lastWrite' = [op |-> "write", md |-> m,
                             fresh |-> (DOMAIN xattrs = {}),
                             outcome |-> w.outcome, slots |-> w.slots]
            /\ lastRead' = NoRead
            /\ UNCHANGED <<slotCeiling, registryVars, proxyVars, raceVars, faultVars, addVars>>

WriteMetadataFault ==
    \E m \in Mappings, at \in FaultSlots, e \in WriteErrnos :
        LET w == write_metadata(xattrs, m, slotCeiling, at, e)
        IN  /\ w.outcome # "ok"
            /\ xattrs' = w.xattrs
            /\ lastWrite' = [op |-> "write", md |-> m,
                             fresh |-> (DOMAIN xattrs = {}),
                             outcome |-> w.outcome, slots |-> w.slots]
            /\ lastRead' = NoRead
            /\ UNCHANGED <<slotCeiling, registryVars, proxyVars, raceVars, faultVars, addVars>>

ReadMetadata ==
    /\ lastRead' = [op |-> "read", faultAt |-> NoFault, faultErrno |-> "none",
                    outcome |-> read_metadata(xattrs, NoFault, "none")]
    /\ UNCHANGED <<xattrs, lastWrite, slotCeiling, registryVars, proxyVars, raceVars, faultVars, addVars>>

ReadMetadataFault ==
    \E at \in FaultSlots, e \in ReadErrnos :
        /\ \A k \in 0..(at - 1) : k \in DOMAIN xattrs
        /\ lastRead' = [op |-> "read", faultAt |-> at, faultErrno |-> e,
                        outcome |-> read_metadata(xattrs, at, e)]
        /\ UNCHANGED <<xattrs, lastWrite, slotCeiling, registryVars, proxyVars, raceVars, faultVars, addVars>>

CodecNext == WriteMetadata \/ WriteMetadataFault \/ ReadMetadata \/ ReadMetadataFault

Spec == CodecInit /\ [][CodecNext]_vars

-----------------------------------------------------------------------------
\* Claims about the codec, checked under Spec.

\* the bytes a read concatenates: the chunks of slots 0, 1, ... up to the first missing slot
RECURSIVE ConcatSlots(_, _)
ConcatSlots(x, key) ==
    IF key \in DOMAIN x THEN x[key] \o ConcatSlots(x, key + 1) ELSE << >>

\* a read that the store did not disturb has been made after a successful write
\* to a data file that had no slot
FreshWriteThenRead ==
    /\ lastWrite.op = "write"
    /\ lastWrite.outcome = "ok"
    /\ lastWrite.fresh
    /\ lastRead.op = "read"
    /\ lastRead.faultAt = NoFault

\* C1: on a data file with no slots, write_metadata followed by read_metadata
\* returns a mapping equal to the one written, whatever the length of the
\* serialization relative to the slot ceiling.
RoundTripFresh ==
    FreshWriteThenRead => lastRead.outcome = ReadOutcome("mapping", lastWrite.md)

\* C1 witness: the round trip of a serialization that fills several slots exactly
RoundTripFreshWitness ==
    /\ FreshWriteThenRead
    /\ DOMAIN lastWrite.md # {}
    /\ lastWrite.slots >= 2
    /\ Len(dumps(lastWrite.md)) = lastWrite.slots * slotCeiling
    /\ lastRead.outcome = ReadOutcome("mapping", lastWrite.md)

\* the slots are exactly those of the last write
NoStaleSlots == DOMAIN xattrs = 0..(lastWrite.slots - 1)

\* C2: a successful write over the slots of the successful writes before it
\* leaves no slot with an index at or beyond the number of slots it needed, and the
\* bytes a read then concatenates are exactly the serialization just written.
NoStaleTrailingChunks ==
    [][(/\ lastWrite.outcome \in {"none", "ok"}
        /\ NoStaleSlots
        /\ WriteMetadata)
       => (/\ NoStaleSlots'
           /\ ConcatSlots(xattrs', 0) = dumps(lastWrite'.md))]_vars

\* C3: read_metadata returns False (NotFound) only when slot 0 is simply absent,
\* raises DiskFileXattrNotSupported whenever the store signals ENOTSUP, also on the
\* first slot, and raises DiskFileNotExist when the store signals ENOENT.
ReadErrorsDistinguished ==
    lastRead.op = "read" =>
        /\ lastRead.outcome.kind = "False"
               => (lastRead.faultAt # 0 /\ 0 \notin DOMAIN xattrs)
        /\ (lastRead.faultAt # NoFault /\ lastRead.faultErrno = "ENOTSUP")
               => lastRead.outcome.kind = "DiskFileXattrNotSupported"
        /\ (lastRead.faultAt # NoFault /\ lastRead.faultErrno = "ENOENT")
               => lastRead.outcome.kind = "DiskFileNotExist"

-----------------------------------------------------------------------------
\* The registry specification: set_microcontroller and delete_microcontroller
\* calls served by one object-server process.

\* the object has a trigger dictionary in which mc is bound to trigger
HasBinding(metadata, trigger, mc) ==
    /\ VERTIGO_MC_HEADER \in DOMAIN metadata
    /\ trigger \in AllTriggers
    /\ InList(mc, metadata[VERTIGO_MC_HEADER][trigger])

CallRecord(op, o, trigger, mc, body, storeFault, outcome) ==
    [op |-> op, obj |-> o, trigger |-> trigger, mc |-> mc, body |-> body,
     storeFault |-> storeFault,
     hadDict |-> (o \in Objects /\ VERTIGO_MC_HEADER \in DOMAIN swift_metadata[o]),
     hadBinding |-> (o \in Objects /\ HasBinding(swift_metadata[o], trigger, mc)),
     outcome |-> outcome]

RegistryInit ==
    /\ RegistryIdle
    /\ CodecIdle
    /\ ProxyIdle
    /\ RaceIdle
    /\ FaultIdle
    /\ AddIdle

\* a request whose object has no data file: get_data_file raises in the first try
SetNoDataFile ==
    \E trigger \in RequestTriggers, mc \in Handlers, body \in Bodies :
        /\ calls < MaxCalls
        /\ calls' = calls + 1
        /\ lastCall' = CallRecord("set", NoDataFile, trigger, mc, body, FALSE,
                                  <<"ValueError", "error getting trigger dictionary">>)
        /\ UNCHANGED <<DEFAULT_MD_STRING, swift_metadata, codecVars, proxyVars, raceVars, faultVars, addVars>>

SetMicrocontroller ==
    \E o \in Objects, trigger \in RequestTriggers, mc \in Handlers, body \in Bodies,
       storeFault \in BOOLEAN :
        LET r == set_microcontroller(DEFAULT_MD_STRING, swift_metadata[o], trigger, mc,
                                     rstrip(body), storeFault)
        IN  /\ calls < MaxCalls
            /\ calls' = calls + 1
            /\ DEFAULT_MD_STRING' = r.default
            /\ swift_metadata' = [swift_metadata EXCEPT ![o] = r.metadata]
            /\ lastCall' = CallRecord("set", o, trigger, mc, body, storeFault, r.outcome)
            /\ UNCHANGED <<codecVars, proxyVars, raceVars, faultVars, addVars>>

DeleteNoDataFile ==
    \E trigger \in RequestTriggers \cup {"vertigo"}, mc \in Handlers \cup {"all"} :
        /\ calls < MaxCalls
        /\ calls' = calls + 1
        /\ lastCall' = CallRecord("delete", NoDataFile, trigger, mc, "", FALSE,
                                  <<"ValueError", "error getting trigger metadata">>)
        /\ UNCHANGED <<DEFAULT_MD_STRING, swift_metadata, codecVars, proxyVars, raceVars, faultVars, addVars>>

DeleteMicrocontroller ==
    \E o \in Objects, trigger \in RequestTriggers \cup {"vertigo"}, mc \in Handlers \cup {"all"},
       storeFault \in BOOLEAN :
        LET r == delete_microcontroller(swift_metadata[o], trigger, mc, storeFault)
        IN  /\ calls < MaxCalls
            /\ calls' = calls + 1
            /\ swift_metadata' = [swift_metadata EXCEPT ![o] = r.metadata]
            /\ lastCall' = CallRecord("delete", o, trigger, mc, "", storeFault, r.outcome)
            /\ UNCHANGED <<DEFAULT_MD_STRING, codecVars, proxyVars, raceVars, faultVars, addVars>>

\* a HEAD request served by the proxy for an object of the registry: the
\* backend answers with the object's stored metadata as headers
HeadRequest ==
    \E o \in Objects :
        /\ calls < MaxCalls
        /\ calls' = calls + 1
        /\ lastCall' = CallRecord("HEAD", o, "", "", "", FALSE,
                                  <<"response", HEAD(BackendHeaders(swift_metadata[o]))>>)
        /\ UNCHANGED <<DEFAULT_MD_STRING, swift_metadata, codecVars, proxyVars, raceVars, faultVars, addVars>>

RegistryNext ==
    SetNoDataFile \/ SetMicrocontroller \/ DeleteNoDataFile \/ DeleteMicrocontroller \/ HeadRequest

SpecRegistry == RegistryInit /\ [][RegistryNext]_vars

-----------------------------------------------------------------------------
\* Claims about the registry, checked under SpecRegistry.

NoDuplicates(v) == \A i, j \in 1..Len(v.items) : v.items[i] = v.items[j] => i = j

Succeeded(call) == call.outcome = <<"ok">>

\* the value of a trigger in the object's stored metadata; None when the
\* object has no trigger dictionary
StoredList(metadata, trigger) ==
    IF VERTIGO_MC_HEADER \in DOMAIN metadata THEN metadata[VERTIGO_MC_HEADER][trigger] ELSE None

\* C4: after any sequence of set_microcontroller and delete_microcontroller calls
\* every handler name appears at most once in each trigger's list of each object,
\* and after a call that adds a binding the handler is in the list.
HandlerUniqueness ==
    /\ \A o \in Objects, t \in AllTriggers : NoDuplicates(StoredList(swift_metadata[o], t))
    /\ (lastCall.op = "set" /\ Succeeded(lastCall))
           => InList(lastCall.mc, StoredList(swift_metadata[lastCall.obj], lastCall.trigger))

\* C4 witness: a binding that the object already had has been added again
HandlerUniquenessWitness ==
    /\ lastCall.op = "set"
    /\ Succeeded(lastCall)
    /\ lastCall.hadBinding
    /\ Len(StoredList(swift_metadata[lastCall.obj], lastCall.trigger).items) = 1

\* C5: the stored metadata of an object never holds a trigger dictionary whose
\* values are all None or empty: when the last handler is removed the dictionary
\* is removed with it.
FullNullCollapse ==
    \A o \in Objects :
        VERTIGO_MC_HEADER \in DOMAIN swift_metadata[o]
            => \E t \in AllTriggers : ~Falsy(swift_metadata[o][VERTIGO_MC_HEADER][t])

\* C5 witness: a delete has removed the last handler of an object, and the
\* dictionary is gone
FullNullCollapseWitness ==
    /\ lastCall.op = "delete"
    /\ lastCall.trigger \in AllTriggers
    /\ lastCall.hadDict
    /\ Succeeded(lastCall)
    /\ VERTIGO_MC_HEADER \notin DOMAIN swift_metadata[lastCall.obj]

\* C6: set_microcontroller(t, h) on an object without a trigger dictionary stores
\* the dictionary in which t is [h] and the three other triggers are None,
\* whatever calls the process served before.
FreshAddFromDefault ==
    (lastCall.op = "set" /\ Succeeded(lastCall) /\ ~lastCall.hadDict)
        => swift_metadata[lastCall.obj][VERTIGO_MC_HEADER]
               = [DefaultMdString EXCEPT ![lastCall.trigger] = PyList(<<lastCall.mc>>)]

\* the per-handler configuration entries of the metadata, but those of trigger
ConfigOfOthers(metadata, trigger) ==
    [k \in {key \in DOMAIN metadata :
               StartsWithSysmeta(key) /\ key # VERTIGO_MC_HEADER /\ key[2] # trigger}
        |-> metadata[k]]

\* this step is a delete_microcontroller(trigger, "all") call, with a working
\* store, on an object that has a trigger dictionary
WildcardRemovalOf(o, trigger) ==
    /\ calls' = calls + 1
    /\ lastCall'.op = "delete"
    /\ lastCall'.obj = o
    /\ lastCall'.trigger = trigger
    /\ lastCall'.mc = "all"
    /\ ~lastCall'.storeFault
    /\ VERTIGO_MC_HEADER \in DOMAIN swift_metadata[o]

\* C7: on an object that has a trigger dictionary, delete_microcontroller(t, "all")
\* succeeds, leaves t without handlers, removes the configuration entry of every
\* handler that was in t's list and leaves those of the other triggers as they were.
WildcardHandlerRemoval ==
    [][\A o \in Objects, t \in RequestTriggers :
          WildcardRemovalOf(o, t) =>
              /\ Succeeded(lastCall')
              /\ StoredList(swift_metadata'[o], t) = None
              /\ \A h \in Handlers :
                     InList(h, swift_metadata[o][VERTIGO_MC_HEADER][t])
                         => SysmetaKey(t, h) \notin DOMAIN swift_metadata'[o]
              /\ ConfigOfOthers(swift_metadata'[o], t) = ConfigOfOthers(swift_metadata[o], t)]_vars

\* this step is a delete_microcontroller(trigger, mc) call for one handler,
\* with a working store
SpecificRemovalOf(o, trigger, mc) ==
    /\ calls' = calls + 1
    /\ lastCall'.op = "delete"
    /\ lastCall'.obj = o
    /\ lastCall'.trigger = trigger
    /\ lastCall'.mc = mc
    /\ ~lastCall'.storeFault

\* C8: delete_microcontroller(t, h) for a handler h in t's list removes h from
\* the list and deletes the (t, h) configuration entry; for a handler that is not
\* in the list, or an object without a trigger dictionary, it raises the
\* ValueError that names h and t and leaves the stored metadata as it was.
SpecificRemoval ==
    [][\A o \in Objects, t \in RequestTriggers, h \in Handlers :
          SpecificRemovalOf(o, t, h) =>
              IF HasBinding(swift_metadata[o], t, h)
              THEN /\ Succeeded(lastCall')
                   /\ ~InList(h, StoredList(swift_metadata'[o], t))
                   /\ SysmetaKey(t, h) \notin DOMAIN swift_metadata'[o]
              ELSE /\ lastCall'.outcome = NotAssigned(t, h)
                   /\ swift_metadata' = swift_metadata]_vars

\* C8 witness: a handler that is not bound has been deleted from an object
\* that has a trigger dictionary, and the call failed
SpecificRemovalWitness ==
    /\ lastCall.op = "delete"
    /\ lastCall.obj \in Objects
    /\ lastCall.mc \in Handlers
    /\ lastCall.trigger \in RequestTriggers
    /\ ~lastCall.storeFault
    /\ lastCall.hadDict
    /\ ~lastCall.hadBinding
    /\ lastCall.outcome = NotAssigned(lastCall.trigger, lastCall.mc)

-----------------------------------------------------------------------------
\* The proxy specification: requests served by VertigoProxyHandler, and
\* create_link called for a pair of object paths.

ProxyInit ==
    /\ objects = [p \in Paths |-> Stored("text/plain", NoLink, "b1")]
    /\ memcache \in Memcaches
    /\ lastRequest = NoRequest
    /\ CodecIdle
    /\ RegistryIdle
    /\ RaceIdle
    /\ FaultIdle
    /\ AddIdle

\* names of objects that may be read: the stored ones and one that does not exist
ReadNames == ObjectNames \cup {"none"}

Get ==
    \E name \in ReadNames, userAgent \in UserAgents, token \in Tokens \cup {NoToken} :
        LET out == GET(objects, memcache, PathOf(name), userAgent, token)
        IN  /\ lastRequest' = [Served("GET", name, PathOf(name), "", "", out)
                                   EXCEPT !.userAgent = userAgent, !.token = token]
            /\ UNCHANGED <<objects, memcache, codecVars, registryVars, raceVars, faultVars, addVars>>

CreateLink ==
    \E link_path \in Paths, dest_path \in Paths :
        LET out == create_link(objects, link_path, dest_path)
        IN  /\ objects' = out.objects
            /\ lastRequest' = Served("create_link", "", link_path, dest_path, "", out)
            /\ UNCHANGED <<memcache, codecVars, registryVars, raceVars, faultVars, addVars>>

Put ==
    \E kind \in PutKinds, name \in ObjectNames \cup Wildcards, link_to \in Paths, put \in PlainPuts :
        /\ kind \in {"move", "plain"} => name \in ObjectNames
        /\ LET out == PUT(objects, kind, name, link_to, put)
           IN  /\ objects' = out.objects
               /\ lastRequest' = Served("PUT", name, PathOf(name),
                                        IF kind = "move" THEN link_to ELSE "", kind, out)
               /\ UNCHANGED <<memcache, codecVars, registryVars, raceVars, faultVars, addVars>>

Move ==
    \E name \in ObjectNames, dest_path \in Paths :
        LET out == MOVE(objects, PathOf(name), dest_path)
        IN  /\ objects' = out.objects
            /\ lastRequest' = Served("MOVE", name, PathOf(name), dest_path, "move", out)
            /\ UNCHANGED <<memcache, codecVars, registryVars, raceVars, faultVars, addVars>>

\* a request handle_request rejects or passes through: its method names no
\* public handler, or is_valid_request is false
HandleRequest ==
    \E method \in Verbs, is_valid_request \in BOOLEAN, name \in ObjectNames, put \in PlainPuts :
        /\ handle_request(method, is_valid_request) # "handler"
        /\ method # "PUT" => put = CHOOSE one \in PlainPuts : TRUE
        /\ LET out == NotHandled(objects, method, is_valid_request, PathOf(name), put)
           IN  /\ objects' = out.objects
               /\ lastRequest' = [Served(method, name, PathOf(name), "",
                                         handle_request(method, is_valid_request), out)
                                      EXCEPT !.valid = is_valid_request]
               /\ UNCHANGED <<memcache, codecVars, registryVars, raceVars, faultVars, addVars>>

ProxyNext == Get \/ CreateLink \/ Put \/ Move \/ HandleRequest

SpecProxy == ProxyInit /\ [][ProxyNext]_vars

-----------------------------------------------------------------------------
\* Claims about links and moves.

\* the object create_link(A, B) writes
LinkWritten(A, B) == objects[A] = Stored(LinkContentTypeWritten, B, "")

\* the requests a served request sent for path B
RequestsFor(B) == {i \in DOMAIN lastRequest.subreqs : lastRequest.subreqs[i][2] = B}

\* a GET of path A that was answered, with neither A nor B in memcache
ReadOfLink(A, B) ==
    /\ A # B
    /\ LinkWritten(A, B)
    /\ lastRequest.method = "GET" /\ lastRequest.path = A /\ lastRequest.exc = "none"
    /\ ~IsObjectInCache(memcache, A) /\ ~IsObjectInCache(memcache, B)

\* C9: link transparency.  When A holds the link create_link(A, B) wrote, a GET
\* of A returns the current body of B and sends exactly one request for B.
LinkTransparency ==
    \A A \in Paths, B \in Paths :
        ReadOfLink(A, B) =>
            /\ lastRequest.resp.body = objects[B].body
            /\ Cardinality(RequestsFor(B)) = 1

\* a MOVE or a PUT object-move request whose source path is its destination
SamePathMove ==
    /\ lastRequest.method \in {"MOVE", "PUT"}
    /\ lastRequest.kind = "move"
    /\ lastRequest.path = lastRequest.dest

\* C10: conflict rejection.  A move request whose source path equals its
\* destination path is answered with a non-success response and sends no
\* sub-request.
ConflictRejection ==
    SamePathMove =>
        /\ lastRequest.exc = "none"
        /\ ~IsSuccess(lastRequest.resp)
        /\ lastRequest.subreqs = << >>

-----------------------------------------------------------------------------
\* Claims about wildcard trigger requests.

\* a trigger assignation or deletion request for a wildcard name has been served
WildcardServed ==
    /\ lastRequest.method = "PUT"
    /\ lastRequest.kind \in {"assignation", "deletion"}
    /\ lastRequest.name \in Wildcards

\* the requests the loop sends for one object of the list when nothing fails:
\* the access check, for a link the access check of its destination, and the
\* mutation request
ObjectRequests(name) ==
    LET p == PathOf(name)
    IN  IF p \in Paths /\ objects[p].ctype = LinkContentTypeRead
        THEN <<SubRequest("HEAD", p), SubRequest("HEAD", objects[p].linkto),
               SubRequest("PUT", objects[p].linkto)>>
        ELSE <<SubRequest("HEAD", p), SubRequest("PUT", p)>>

\* the requests sent for the first n objects of a list, in list order
RECURSIVE RequestsOfPrefix(_, _)
RequestsOfPrefix(obj_list, n) ==
    IF n = 0 THEN << >>
    ELSE RequestsOfPrefix(obj_list, n - 1) \o ObjectRequests(obj_list[n])

\* the requests sent before the loop: the access check of the handler of an
\* assignation and the listing
RequestsBeforeLoop ==
    (IF lastRequest.kind = "assignation" THEN <<SubRequest("HEAD", HandlerPath)>> ELSE << >>)
    \o <<ListingRequest(lastRequest.name)>>

\* the request failed while object k of the list was processed: the objects
\* before k got all their requests, object k a part of its own, later ones none
FailedOnObject(obj_list, k) ==
    \E n \in 1..(Len(ObjectRequests(obj_list[k])) - 1) :
        lastRequest.subreqs =
            RequestsBeforeLoop \o RequestsOfPrefix(obj_list, k - 1)
            \o SubSeq(ObjectRequests(obj_list[k]), 1, n)

Covered(name) ==
    {p \in Paths : objects[p].exists /\ (name = "*" \/ p = "c/f/x")}

\* the positions of the mutation requests sent to path p
MutationsTo(p) ==
    {i \in DOMAIN lastRequest.subreqs : lastRequest.subreqs[i] = SubRequest("PUT", p)}

\* C12: wildcard write isolation.  A trigger assignation for a wildcard name
\* sends one mutation request to each existing object the wildcard covers and
\* none to any other path.
WildcardWriteIsolation ==
    (WildcardServed /\ lastRequest.kind = "assignation") =>
        /\ \A p \in Covered(lastRequest.name) : Cardinality(MutationsTo(p)) = 1
        /\ \A i \in DOMAIN lastRequest.subreqs :
               lastRequest.subreqs[i][1] = "PUT" =>
                   lastRequest.subreqs[i][2] \in Covered(lastRequest.name)

-----------------------------------------------------------------------------
\* Claims about the two forms of a move request.

\* what the PUT object-move request for the same object and destination does
\* in the state a MOVE request is served in
PutMoveOutcome(name, dest_path) ==
    PUT(objects, "move", name, dest_path, CHOOSE put \in PlainPuts : TRUE)

\* C13: move equivalence.  A MOVE request and the PUT object-move request for
\* the same object, in the same state and with the same destination, send the
\* same sub-requests, end in the same exception or response and leave the same
\* objects.
MoveEquivalence ==
    [][\A name \in ObjectNames, dest_path \in Paths :
           (/\ lastRequest'.method = "MOVE"
            /\ lastRequest'.name = name
            /\ lastRequest'.dest = dest_path)
           => /\ lastRequest'.subreqs = PutMoveOutcome(name, dest_path).subreqs
              /\ lastRequest'.exc = PutMoveOutcome(name, dest_path).exc
              /\ lastRequest'.resp = PutMoveOutcome(name, dest_path).resp
              /\ objects' = PutMoveOutcome(name, dest_path).objects]_vars

-----------------------------------------------------------------------------
\* Claims about handle_request.

\* a request whose method is none of the public handlers has been served
UnsupportedVerbServed ==
    /\ lastRequest.method \in Verbs \ PublicHandlers
    /\ lastRequest.kind \in {"HTTPMethodNotAllowed", "get_response"}

\* C14 as stated: a request whose verb is none of the public handlers is
\* answered 405 and is never forwarded to the backend.
UnsupportedVerbRejected ==
    UnsupportedVerbServed =>
        /\ lastRequest.resp.status = 405
        /\ lastRequest.subreqs = << >>

\* C14 as amended: a valid request whose verb names an attribute of the handler
\* that is not a public handler is answered 405 without any request to the
\* backend; a request whose verb names no attribute of the handler, or that is
\* not valid, is forwarded once, unchanged, and answered with the backend's
\* response.
UnsupportedVerbHandling ==
    UnsupportedVerbServed =>
        IF lastRequest.method \in PrivateAttributes /\ lastRequest.valid
        THEN /\ lastRequest.resp.status = 405
             /\ lastRequest.subreqs = << >>
        ELSE /\ lastRequest.subreqs = <<SubRequest(lastRequest.method, lastRequest.path)>>
             /\ lastRequest.kind = "get_response"

\* a valid DELETE request has been forwarded and the backend has removed the object
UnsupportedVerbHandlingWitness ==
    /\ UnsupportedVerbServed
    /\ lastRequest.method = "DELETE"
    /\ lastRequest.valid
    /\ lastRequest.resp.status = 204
    /\ ~objects[lastRequest.path].exists

-----------------------------------------------------------------------------
\* Claims about HEAD.

\* the headers of the response of the HEAD request served last
HeadResponse == lastCall.outcome[2]

\* C15: HEAD header exposure.  After a HEAD, every header of the reserved
\* namespace X-Object-Sysmeta-Vertigo-K that the backend sent is in the response
\* under the public name Vertigo-K: with the same value when it is not the
\* trigger dictionary, and for the trigger dictionary with exactly the triggers
\* that have at least one handler, each with its list of handlers.
HeadHeaderExposure ==
    lastCall.op = "HEAD" =>
        LET metadata == swift_metadata[lastCall.obj]
        IN  /\ \A key \in DOMAIN metadata :
                   (StartsWithSysmeta(key) /\ key # VERTIGO_MC_HEADER) =>
                       /\ PublicKey(key) \in DOMAIN HeadResponse
                       /\ HeadResponse[PublicKey(key)] = metadata[key]
            /\ VERTIGO_MC_HEADER \in DOMAIN metadata =>
                   /\ PublicKey(VERTIGO_MC_HEADER) \in DOMAIN HeadResponse
                   /\ LET exposed == PyEval(HeadResponse[PublicKey(VERTIGO_MC_HEADER)])
                          stored == metadata[VERTIGO_MC_HEADER]
                      IN  /\ DOMAIN exposed = {t \in AllTriggers : ~Falsy(stored[t])}
                          /\ \A t \in DOMAIN exposed : exposed[t] = stored[t]

\* a HEAD of an object with a handler configuration entry and a trigger
\* dictionary that has both a trigger with a handler and a trigger without
HeadHeaderExposureWitness ==
    /\ lastCall.op = "HEAD"
    /\ LET metadata == swift_metadata[lastCall.obj]
       IN  /\ VERTIGO_MC_HEADER \in DOMAIN metadata
           /\ \E t \in AllTriggers : Falsy(metadata[VERTIGO_MC_HEADER][t])
           /\ \E t \in AllTriggers : ~Falsy(metadata[VERTIGO_MC_HEADER][t])
           /\ \E key \in DOMAIN metadata : StartsWithSysmeta(key) /\ key # VERTIGO_MC_HEADER

-----------------------------------------------------------------------------
\* Claims about handler configuration entries and the namespace wipe.

\* the handler configuration entries of a metadata mapping
ConfigKeys(metadata) ==
    {key \in DOMAIN metadata : StartsWithSysmeta(key) /\ key # VERTIGO_MC_HEADER}

\* a call set_microcontroller(o, trigger, mc) with this request body succeeds in this step
SetSucceeds(o, trigger, mc, body) ==
    /\ lastCall'.op = "set" /\ lastCall'.obj = o /\ lastCall'.trigger = trigger
    /\ lastCall'.mc = mc /\ lastCall'.body = body
    /\ lastCall'.outcome = <<"ok">>

\* the configuration entries of the other (trigger, handler) pairs are unchanged
OtherConfigUnchanged(o, trigger, mc) ==
    /\ ConfigKeys(swift_metadata'[o]) \ {SysmetaKey(trigger, mc)}
           = ConfigKeys(swift_metadata[o]) \ {SysmetaKey(trigger, mc)}
    /\ \A key \in ConfigKeys(swift_metadata[o]) \ {SysmetaKey(trigger, mc)} :
           swift_metadata'[o][key] = swift_metadata[o][key]

\* C18 as stated: a successful add with a non-empty body leaves the (trigger,
\* handler) configuration entry equal to the body, one with an empty body leaves
\* no such entry, and the entries of other pairs are unchanged.
ConfigOnAddAsStated ==
    [][\A o \in Objects, trigger \in RequestTriggers, mc \in Handlers, body \in Bodies :
           SetSucceeds(o, trigger, mc, body) =>
               /\ body # "" =>
                      /\ SysmetaKey(trigger, mc) \in DOMAIN swift_metadata'[o]
                      /\ swift_metadata'[o][SysmetaKey(trigger, mc)] = body
               /\ body = "" => SysmetaKey(trigger, mc) \notin DOMAIN swift_metadata'[o]
               /\ OtherConfigUnchanged(o, trigger, mc)]_vars

\* C18 as amended: the body counts without its trailing whitespace.  A
\* successful add whose body is not empty after rstrip() leaves the entry equal
\* to the stripped body, one whose body is empty or only whitespace leaves no
\* entry even if one existed, and the entries of other pairs are unchanged.
ConfigOnAdd ==
    [][\A o \in Objects, trigger \in RequestTriggers, mc \in Handlers, body \in Bodies :
           SetSucceeds(o, trigger, mc, body) =>
               /\ rstrip(body) # "" =>
                      /\ SysmetaKey(trigger, mc) \in DOMAIN swift_metadata'[o]
                      /\ swift_metadata'[o][SysmetaKey(trigger, mc)] = rstrip(body)
               /\ rstrip(body) = "" => SysmetaKey(trigger, mc) \notin DOMAIN swift_metadata'[o]
               /\ OtherConfigUnchanged(o, trigger, mc)]_vars

\* a binding that has a configuration entry has been added again with an empty
\* body, while another pair of the object keeps its entry
ConfigOnAddWitness ==
    /\ lastCall.op = "set" /\ lastCall.outcome = <<"ok">>
    /\ lastCall.body = "" /\ lastCall.hadBinding
    /\ SysmetaKey(lastCall.trigger, lastCall.mc) \notin DOMAIN swift_metadata[lastCall.obj]
    /\ ConfigKeys(swift_metadata[lastCall.obj]) # {}

\* C19: namespace wipe.  delete_microcontroller("vertigo", "all") on an object
\* whose metadata can be written removes every entry whose key starts with the
\* reserved prefix, leaves every other entry as it is, and succeeds whether or
\* not the object has a trigger dictionary.
NamespaceWipe ==
    [][\A o \in Objects :
           (/\ lastCall'.op = "delete" /\ lastCall'.obj = o
            /\ lastCall'.trigger = "vertigo" /\ lastCall'.mc = "all"
            /\ ~lastCall'.storeFault)
           => /\ lastCall'.outcome = <<"ok">>
              /\ \A key \in DOMAIN swift_metadata'[o] : ~StartsWithSysmeta(key)
              /\ \A key \in DOMAIN swift_metadata[o] :
                     ~StartsWithSysmeta(key) =>
                         /\ key \in DOMAIN swift_metadata'[o]
                         /\ swift_metadata'[o][key] = swift_metadata[o][key]
              /\ \A q \in Objects \ {o} : swift_metadata'[q] = swift_metadata[q]]_vars

\* the namespace of an object that had a trigger dictionary has been wiped
NamespaceWipeWitness ==
    /\ lastCall.op = "delete" /\ lastCall.outcome = <<"ok">>
    /\ lastCall.trigger = "vertigo" /\ lastCall.mc = "all"
    /\ lastCall.hadDict
    /\ DOMAIN swift_metadata[lastCall.obj] = DOMAIN PlainMetadata

-----------------------------------------------------------------------------
\* Claims about the slot layout, checked under Spec.

\* ceil(L / M)
CeilDiv(L, M) == (L + M - 1) \div M

\* the last write_metadata call succeeded
WriteSucceeded == lastWrite.op = "write" /\ lastWrite.outcome = "ok"

\* C16: slot layout.  A successful write of a serialization of L bytes with slot
\* ceiling M writes ceil(L/M) slots numbered 0, 1, ... without a gap, each of M
\* bytes but the last, which holds the L - M*(ceil(L/M) - 1) bytes that remain;
\* on a data file that had no slot the first missing slot is the one after
\* them, and a read takes the slots up to the first missing one.
SlotLayout ==
    WriteSucceeded =>
        LET L == Len(dumps(lastWrite.md))
            M == slotCeiling
            n == CeilDiv(L, M)
        IN  /\ L > 0
            /\ lastWrite.slots = n
            /\ \A k \in 0..(n - 1) :
                   /\ k \in DOMAIN xattrs
                   /\ Len(xattrs[k]) = IF k < n - 1 THEN M ELSE L - M * (n - 1)
            /\ lastWrite.fresh => DOMAIN xattrs = 0..(n - 1)
            /\ (lastRead.op = "read" /\ lastRead.faultAt = NoFault) =>
                   lastRead.outcome = ReadExcept(ConcatSlots(xattrs, 0), "ENODATA")

\* a serialization that does not fill its last slot has been written to several
\* slots and read back
SlotLayoutWitness ==
    /\ WriteSucceeded
    /\ lastWrite.slots >= 2
    /\ Len(dumps(lastWrite.md)) < lastWrite.slots * slotCeiling
    /\ slotCeiling >= 2
    /\ lastRead.op = "read" /\ lastRead.faultAt = NoFault

-----------------------------------------------------------------------------
\* The race specification: two processes call write_metadata at the same time
\* for the same data file and key.  One step is one pass of the while loop of
\* write_metadata, whose setxattr call the attribute store serves atomically.

\* keys of the mappings the two processes write
RaceKeys == {1, 2}

\* the mappings of one entry; their serializations have the same length
RaceMappings == UNION {[{k} -> MdValues] : k \in RaceKeys}

RaceInit ==
    /\ slotCeiling \in 1..MaxSlotBytes
    /\ xattrs = << >>
    /\ lastWrite = NoWrite
    /\ lastRead = NoRead
    /\ \E m1 \in RaceMappings, m2 \in RaceMappings :
           /\ m1 # m2
           /\ writers = [w \in Writers |->
                            IF w = "w1" THEN WriterAt(m1, dumps(m1), 0)
                            ELSE WriterAt(m2, dumps(m2), 0)]
    /\ RegistryIdle
    /\ ProxyIdle
    /\ FaultIdle
    /\ AddIdle

\* one pass of the loop of write_metadata in process w
WriteSlot(w) ==
    /\ writers[w].metastr # << >>
    /\ xattrs' = setxattr(xattrs, writers[w].key, SlotChunk(writers[w].metastr, slotCeiling))
    /\ writers' = [writers EXCEPT ![w] =
                      WriterAt(@.md, RestOfMetastr(@.metastr, slotCeiling), @.key + 1)]
    /\ UNCHANGED <<lastWrite, lastRead, slotCeiling, registryVars, proxyVars, faultVars, addVars>>

RaceNext == \E w \in Writers : WriteSlot(w)

SpecRace == RaceInit /\ [][RaceNext]_vars

\* both processes have left the loop
BothWritten == \A w \in Writers : writers[w].metastr = << >>

\* the bytes of slot key in the serialization of mapping m
ChunkOf(m, key) ==
    SubSeq(dumps(m), key * slotCeiling + 1, Min((key + 1) * slotCeiling, Len(dumps(m))))

\* C17: the slot writes are atomic but the write of a mapping is not.  When two
\* processes have written different mappings of several slots, every slot holds
\* the whole chunk of one of the two serializations, never a mix of bytes; the
\* slots together may still be neither serialization (the state of the witness).
SlotWritesAtomicOnly ==
    BothWritten =>
        \A key \in DOMAIN xattrs :
            \E w \in Writers : xattrs[key] = ChunkOf(writers[w].md, key)

\* both processes are done and the slots, read in order, are neither
\* process's serialization
CorruptedByInterleaving ==
    /\ BothWritten
    /\ \A w \in Writers :
           /\ Len(dumps(writers[w].md)) > slotCeiling
           /\ ConcatSlots(xattrs, 0) # dumps(writers[w].md)

-----------------------------------------------------------------------------
\* Claims about the number of redirections of a read.

\* the GET handler has answered a read of A, which is not in memcache and is
\* stored as a link the read path follows, to B, itself stored as such a link
ReadOfLinkToLink(A, B) ==
    /\ lastRequest.method = "GET" /\ lastRequest.kind = "" /\ lastRequest.exc = "none"
    /\ lastRequest.path = A
    /\ ~IsObjectInCache(memcache, A)
    /\ objects[A].exists /\ objects[A].ctype = LinkContentTypeRead /\ objects[A].linkto = B
    /\ objects[B].exists /\ objects[B].ctype = LinkContentTypeRead

\* a read sends its own request and at most one more
AtMostOneRedirection ==
    (lastRequest.method = "GET" /\ lastRequest.kind = "") => Len(lastRequest.subreqs) <= 2

\* C20 as stated: a read performs at most one redirection, and the read of a
\* link whose destination is a link too sends exactly one sub-request to that
\* destination and returns its response without following it.
SingleHopAsStated ==
    /\ AtMostOneRedirection
    /\ \A A \in Paths, B \in Paths :
           ReadOfLinkToLink(A, B) =>
               /\ Cardinality({i \in DOMAIN lastRequest.subreqs :
                                   lastRequest.subreqs[i] = SubRequest("GET", B)})
                      = (IF A = B THEN 2 ELSE 1)
               /\ lastRequest.resp = BackendGET(objects, B)

\* C20 as amended: a read performs at most one redirection, and the read of a
\* link whose destination is a link too returns the destination's response
\* without following it: the response of exactly one sub-request to the
\* destination when the destination is not in memcache, and the cached copy,
\* with no sub-request to the destination, when it is.
SingleHop ==
    /\ AtMostOneRedirection
    /\ \A A \in Paths, B \in Paths :
           ReadOfLinkToLink(A, B) =>
               IF IsObjectInCache(memcache, B)
               THEN /\ lastRequest.subreqs = <<SubRequest("GET", A)>>
                    /\ lastRequest.resp = GetCachedObject(memcache, B)
               ELSE /\ lastRequest.subreqs = <<SubRequest("GET", A), SubRequest("GET", B)>>
                    /\ lastRequest.resp = BackendGET(objects, B)

\* the read of a link in a cycle of two links, neither in memcache
SingleHopWitness ==
    \E A \in Paths, B \in Paths :
        /\ A # B
        /\ ReadOfLinkToLink(A, B)
        /\ objects[B].linkto = A
        /\ ~IsObjectInCache(memcache, B)
        /\ lastRequest.resp.ctype = LinkContentTypeRead
        /\ lastRequest.resp.linkto = A

-----------------------------------------------------------------------------
\* Claims about the order of the steps of a move.

\* the positions of the COPY requests and of the link writes of a served request
CopiesOf(req) == {i \in DOMAIN req.subreqs : req.subreqs[i] = SubRequest("COPY", req.path)}
LinkWritesOf(req) == {i \in DOMAIN req.subreqs : req.subreqs[i] = SubRequest("PUT", req.path)}

\* the source of a move is a link, or carries a link-to field
SourceIsLink(src) == src.ctype = LinkContentTypeRead \/ src.linkto # NoLink

\* C21: moveOrLink ordering.  A MOVE whose source and destination differ first
\* verifies access to the source; it sends a COPY exactly when the source,
\* being accessible, neither is a link nor carries a link-to field; it writes
\* the link at the source path only after those requests, and only when the
\* step before it succeeded, so that no link is written after a failed copy.
MoveOrdering ==
    [][(/\ lastRequest'.method = "MOVE"
        /\ lastRequest'.path # lastRequest'.dest)
       => LET req == lastRequest'
              src == objects[req.path]
          IN  /\ req.subreqs # << >>
              /\ req.subreqs[1] = SubRequest("HEAD", req.path)
              /\ (CopiesOf(req) # {}) <=> (src.exists /\ ~SourceIsLink(src))
              /\ \A i \in LinkWritesOf(req) :
                     /\ i = Len(req.subreqs)
                     /\ \A j \in CopiesOf(req) : j < i
                     /\ src.exists
                     /\ CopiesOf(req) # {} => objects'[req.dest] = src]_vars

-----------------------------------------------------------------------------
\* Claims about reads sent by a microcontroller.

\* a GET has been served by the GET handler
GetServed == lastRequest.method = "GET" /\ lastRequest.kind = ""

\* the request says it comes from a microcontroller, and its token is the
\* memcache entry under the key of the token's prefix and the object read
FromHandlerWithToken ==
    /\ lastRequest.userAgent = "vertigo/microcontroller"
    /\ lastRequest.token # NoToken
    /\ <<lastRequest.token[1], lastRequest.path>> \in DOMAIN memcache.tokens
    /\ memcache.tokens[<<lastRequest.token[1], lastRequest.path>>] = lastRequest.token

\* a microcontroller's read whose token is registered for another object only
TokenOfAnotherObject ==
    /\ GetServed
    /\ lastRequest.userAgent = "vertigo/microcontroller"
    /\ lastRequest.token # NoToken
    /\ <<lastRequest.token[1], lastRequest.path>> \notin DOMAIN memcache.tokens
    /\ \E k \in DOMAIN memcache.tokens : memcache.tokens[k] = lastRequest.token

\* C22: re-entrant read suppression.  A GET leaves the execution of
\* microcontrollers disabled exactly when its User-Agent is that of a
\* microcontroller and its token equals the memcache entry for the token's
\* prefix and the object; with no such entry, or with the token of another
\* object, execution stays enabled.
ReentrantReadSuppression ==
    /\ GetServed => (~lastRequest.mcEnabled <=> FromHandlerWithToken)
    /\ TokenOfAnotherObject => lastRequest.mcEnabled

\* C22 witness: a microcontroller has read an object with the token registered
\* for that object, and the read ran with execution disabled
ReentrantReadSuppressionWitness ==
    /\ GetServed
    /\ lastRequest.exc = "none"
    /\ FromHandlerWithToken
    /\ ~lastRequest.mcEnabled

-----------------------------------------------------------------------------
\* Claims about the order of cache and backend in a read.

\* a GET that passed the microcontroller check and ended without an exception
ReadAnswered == GetServed /\ lastRequest.exc = "none"

\* the response a read has for its object before links are looked at: the
\* cached copy on a hit, the backend's answer on a miss
FirstResponse ==
    IF IsObjectInCache(memcache, lastRequest.path)
    THEN GetCachedObject(memcache, lastRequest.path)
    ELSE BackendGET(objects, lastRequest.path)

\* the requests a read sends to the backend for its object, and for the
\* destination when its first response is a link
ObjectRequestsOfRead ==
    IF IsObjectInCache(memcache, lastRequest.path) THEN << >>
    ELSE <<SubRequest("GET", lastRequest.path)>>

DestinationRequestsOfRead ==
    IF FirstResponse.ctype = LinkContentTypeRead /\ ~IsObjectInCache(memcache, FirstResponse.linkto)
    THEN <<SubRequest("GET", FirstResponse.linkto)>>
    ELSE << >>

\* C23: cache before backend.  A GET sends a request for its object to the
\* backend only on a memcache miss; when the response it then has is a link, it
\* sends the sub-request for the destination only when the destination is not
\* in memcache either, and answers a cached destination from memcache.
CacheBeforeBackend ==
    ReadAnswered =>
        /\ lastRequest.subreqs = ObjectRequestsOfRead \o DestinationRequestsOfRead
        /\ (FirstResponse.ctype = LinkContentTypeRead
            /\ IsObjectInCache(memcache, FirstResponse.linkto))
           => lastRequest.resp = GetCachedObject(memcache, FirstResponse.linkto)
        /\ FirstResponse.ctype # LinkContentTypeRead => lastRequest.resp = FirstResponse

\* C23 witness: a read whose object is a link in the backend and not in
\* memcache has been answered with the cached copy of the link's destination
CacheBeforeBackendWitness ==
    /\ ReadAnswered
    /\ ~IsObjectInCache(memcache, lastRequest.path)
    /\ FirstResponse.ctype = LinkContentTypeRead
    /\ IsObjectInCache(memcache, FirstResponse.linkto)
    /\ lastRequest.subreqs = <<SubRequest("GET", lastRequest.path)>>
    /\ lastRequest.resp = GetCachedObject(memcache, FirstResponse.linkto)

-----------------------------------------------------------------------------
\* The write-fault specification: write_metadata calls on one data file, some
\* of which the attribute store fails on a slot.

WriteFaultInit ==
    /\ slotCeiling \in 1..MaxSlotBytes
    /\ xattrs = << >>
    /\ lastWrite = NoWrite
    /\ lastRead = NoRead
    /\ faultyWrite = NoFaultyWrite
    /\ RegistryIdle
    /\ ProxyIdle
    /\ RaceIdle
    /\ AddIdle

\* a write_metadata call the store serves
WriteServed ==
    \E m \in Mappings :
        LET w == write_metadata(xattrs, m, slotCeiling, NoFault, "none")
        IN  /\ xattrs' = w.xattrs
            /\ faultyWrite' = FaultyWrite(m, xattrs, NoFault, "none", w)
            /\ UNCHANGED <<lastWrite, lastRead, slotCeiling, registryVars, proxyVars,
                           raceVars, addVars>>

\* a write_metadata call whose setxattr of slot `at` fails with errno e
WriteFailed ==
    \E m \in Mappings, at \in FaultSlots, e \in WriteErrnos :
        LET w == write_metadata(xattrs, m, slotCeiling, at, e)
        IN  /\ w.outcome # "ok"
            /\ xattrs' = w.xattrs
            /\ faultyWrite' = FaultyWrite(m, xattrs, at, e, w)
            /\ UNCHANGED <<lastWrite, lastRead, slotCeiling, registryVars, proxyVars,
                           raceVars, addVars>>

WriteFaultNext == WriteServed \/ WriteFailed

SpecWriteFault == WriteFaultInit /\ [][WriteFaultNext]_vars

\* the last write_metadata call was failed by the store
StoreFailedWrite == faultyWrite.op = "write" /\ faultyWrite.faultAt # NoFault

\* slot k holds what it held before the last call
SlotKept(k) ==
    /\ (k \in DOMAIN xattrs) <=> (k \in DOMAIN faultyWrite.before)
    /\ k \in DOMAIN xattrs => xattrs[k] = faultyWrite.before[k]

\* no slot from k on was touched by the last call
LaterSlotsKept(k) ==
    \A i \in (DOMAIN xattrs \cup DOMAIN faultyWrite.before) : i >= k => SlotKept(i)

\* C24: write_metadata error outcomes.  When the store fails a slot write with
\* ENOSPC or EDQUOT the write raises DiskFileNoSpace, with ENOTSUP it raises
\* DiskFileXattrNotSupported, and with any other errno the IOError of the store
\* leaves write_metadata as it is; in each case the write stops at that slot
\* and touches no later slot.
WriteErrorOutcomes ==
    StoreFailedWrite =>
        /\ faultyWrite.faultErrno \in {"ENOSPC", "EDQUOT"}
               => faultyWrite.outcome = "DiskFileNoSpace"
        /\ faultyWrite.faultErrno = "ENOTSUP"
               => faultyWrite.outcome = "DiskFileXattrNotSupported"
        /\ faultyWrite.faultErrno \notin {"ENOSPC", "EDQUOT", "ENOTSUP"}
               => faultyWrite.outcome = "IOError" /\ faultyWrite.errno = faultyWrite.faultErrno
        /\ faultyWrite.slots = faultyWrite.faultAt
        /\ LaterSlotsKept(faultyWrite.faultAt)

\* C24 witness: the store failed a slot that is not the last one the
\* serialization needs, with an errno write_metadata has no clause for, over
\* slots that held another value
WriteErrorOutcomesWitness ==
    /\ StoreFailedWrite
    /\ faultyWrite.faultErrno \in {"EIO", "EACCES"}
    /\ faultyWrite.outcome = "IOError"
    /\ faultyWrite.faultAt >= 1
    /\ Len(dumps(faultyWrite.md)) > (faultyWrite.faultAt + 1) * slotCeiling
    /\ faultyWrite.before # << >>
    /\ ConcatSlots(faultyWrite.before, 0) # dumps(faultyWrite.md)

\* chunk number key (from 0) of metastr under the slot ceiling xattr_size
RECURSIVE ChunkAt(_, _, _)
ChunkAt(metastr, xattr_size, key) ==
    IF key = 0 THEN SlotChunk(metastr, xattr_size)
    ELSE ChunkAt(RestOfMetastr(metastr, xattr_size), xattr_size, key - 1)

\* C25: a failed write is not rolled back.  When write_metadata fails on slot
\* k, the slots 0..k-1 hold the chunks of the new serialization and every slot
\* from k on holds what it held before the call.
FailedWriteNotRolledBack ==
    StoreFailedWrite =>
        /\ \A i \in 0..(faultyWrite.faultAt - 1) :
               /\ i \in DOMAIN xattrs
               /\ xattrs[i] = ChunkAt(dumps(faultyWrite.md), slotCeiling, i)
        /\ LaterSlotsKept(faultyWrite.faultAt)

\* C25 witness: a write over the serialization of a mapping failed on a slot
\* k >= 1, and the bytes now stored are neither the old serialization nor the
\* new one
FailedWriteNotRolledBackWitness ==
    /\ StoreFailedWrite
    /\ faultyWrite.faultAt >= 1
    /\ \E old \in Mappings : ConcatSlots(faultyWrite.before, 0) = dumps(old)
    /\ ConcatSlots(xattrs, 0) # ConcatSlots(faultyWrite.before, 0)
    /\ ConcatSlots(xattrs, 0) # dumps(faultyWrite.md)

-----------------------------------------------------------------------------
\* The concurrent-adds specification: two server processes serve a
\* set_microcontroller request each, for the same object and trigger and for
\* different microcontrollers.  Each process has imported utils.py itself, so
\* each starts from its own DEFAULT_MD_STRING.

\* the object both requests name
SharedObject == "o1"

\* the metadata the object may have when the requests arrive: plain, or with a
\* trigger dictionary an earlier set_microcontroller stored
AddStartMetadata ==
    {PlainMetadata}
    \cup {set_microcontroller(DefaultMdString, PlainMetadata, t, "h1", "", FALSE).metadata :
             t \in RequestTriggers}

AddsInit ==
    /\ DEFAULT_MD_STRING = DefaultMdString
    /\ \E md \in AddStartMetadata :
           swift_metadata = [o \in Objects |-> IF o = SharedObject THEN md ELSE PlainMetadata]
    /\ lastCall = NoCall
    /\ calls = 0
    /\ \E trigger \in RequestTriggers, b1 \in {"", "cfg"}, b2 \in {"", "cfg"} :
           adders = [a \in Adders |->
                        IF a = "p1"
                        THEN AdderAt("start", trigger, "h1", b1, DefaultMdString, << >>)
                        ELSE AdderAt("start", trigger, "h2", b2, DefaultMdString, << >>)]
    /\ CodecIdle
    /\ ProxyIdle
    /\ RaceIdle
    /\ FaultIdle

\* 1st step of set_microcontroller in process a: get_microcontroller_dict reads
\* the stored metadata, and the microcontroller is appended to the dict
GetDict(a) ==
    /\ adders[a].pc = "start"
    /\ LET got == get_microcontroller_dict(swift_metadata[SharedObject])
           mc_dict == AppendIfAbsent(IF got.isNone THEN DefaultMdString ELSE got.dict,
                                     adders[a].trigger, adders[a].mc)
       IN  adders' = [adders EXCEPT ![a] =
                         AdderAt("dict", @.trigger, @.mc, @.body, mc_dict, @.metadata)]
    /\ UNCHANGED <<registryVars, codecVars, proxyVars, raceVars, faultVars>>

\* 3rd step, metadata = get_swift_metadata(data_file)
GetMetadata(a) ==
    /\ adders[a].pc = "dict"
    /\ adders' = [adders EXCEPT ![a] =
                     AdderAt("metadata", @.trigger, @.mc, @.body, @.mc_dict,
                             swift_metadata[SharedObject])]
    /\ UNCHANGED <<registryVars, codecVars, proxyVars, raceVars, faultVars>>

\* 3rd step, the assignments to metadata and set_swift_metadata(data_file, metadata)
SetMetadata(a) ==
    /\ adders[a].pc = "metadata"
    /\ swift_metadata' = [swift_metadata EXCEPT ![SharedObject] =
                             AssignMetadata(adders[a].metadata, adders[a].mc_dict,
                                            adders[a].trigger, adders[a].mc,
                                            rstrip(adders[a].body))]
    /\ adders' = [adders EXCEPT ![a] =
                     AdderAt("done", @.trigger, @.mc, @.body, @.mc_dict, @.metadata)]
    /\ UNCHANGED <<DEFAULT_MD_STRING, lastCall, calls, codecVars, proxyVars, raceVars, faultVars>>

AddsNext ==
    \/ \E a \in Adders : GetDict(a)
    \/ \E a \in Adders : GetMetadata(a)
    \/ \E a \in Adders : SetMetadata(a)

SpecAdds == AddsInit /\ [][AddsNext]_vars

\* both requests have been served
BothAdded == \A a \in Adders : adders[a].pc = "done"

\* C26: concurrent adds are not lost.  When both set_microcontroller requests
\* have been served, the list of their trigger in the stored dictionary of the
\* object holds the microcontroller of each.
ConcurrentAddsKept ==
    BothAdded =>
        \A a \in Adders :
            HasBinding(swift_metadata[SharedObject], adders[a].trigger, adders[a].mc)

====
